---- MODULE Spec2Model ----
(***************************************************************************)
(* Model of the ripgrep MCP server (src/src/index.ts): the command         *)
(* builder of the CallTool handler, exec and its child-process events,     *)
(* and the output normalisation.                                           *)
(*                                                                         *)
(* A JavaScript string is a sequence of one-character strings.  ESC stands *)
(* for U+001B, NL for the line feed and BQ for the backquote.              *)
(***************************************************************************)
EXTENDS Integers, Sequences, FiniteSets, TLC

ESC == "ESC"
NL == "\n"
SP == " "
SQ == "'"
DQ == "\""
BSL == "\\"
\* the backquote, U+0060
BQ == "BQ"

\* ------------------------------------------------------------- bounds
\* longest string given to the quoting function
MaxLen == 3
\* longest raw output given to the output normalisation
MaxRaw == 6
\* most data events on one stream of one child
MaxChunks == 2
\* concurrent calls
NumCalls == 2

\* ------------------------------------------------------ character classes
Digits == {"0", "1", "2", "3", "4", "5", "6", "7", "8", "9"}

Letters ==
  {"a", "b", "c", "d", "e", "f", "g", "h", "i", "j", "k", "l", "m",
   "n", "o", "p", "q", "r", "s", "t", "u", "v", "w", "x", "y", "z",
   "A", "B", "C", "D", "E", "F", "G", "H", "I", "J", "K", "L", "M",
   "N", "O", "P", "Q", "R", "S", "T", "U", "V", "W", "X", "Y", "Z"}

\* [0-9;] of the escape-sequence pattern
CsiParams == Digits \cup {";"}

StringsUpTo(A, n) == UNION {[1..k -> A] : k \in 0..n}

\* ------------------------------------------------- output normalisation
\* the end of the run [0-9;]* that starts at index j
RECURSIVE ParamEnd(_, _)
ParamEnd(s, j) ==
  IF j <= Len(s) /\ s[j] \in CsiParams THEN ParamEnd(s, j + 1) ELSE j

\* length of the match of /\u001b\[[0-9;]*[a-zA-Z]/ that starts at index i, or 0
MatchLen(s, i) ==
  IF i + 1 <= Len(s) /\ s[i] = ESC /\ s[i + 1] = "["
  THEN LET k == ParamEnd(s, i + 2)
       IN IF k <= Len(s) /\ s[k] \in Letters THEN k - i + 1 ELSE 0
  ELSE 0

\* String.prototype.replace with the g flag: one left-to-right pass, each
\* match dropped, the scan resumed after the match
RECURSIVE ReplaceFrom(_, _)
ReplaceFrom(s, i) ==
  IF i > Len(s) THEN <<>>
  ELSE LET n == MatchLen(s, i)
       IN IF n > 0 THEN ReplaceFrom(s, i + n)
          ELSE <<s[i]>> \o ReplaceFrom(s, i + 1)

stripAnsiEscapeCodes(input) == ReplaceFrom(input, 1)

processOutput(output, useColors) ==
  IF output = <<>> THEN output
  ELSE IF useColors THEN output ELSE stripAnsiEscapeCodes(output)

\* ------------------------------------------------------------- quoting
\* arg.replace(/'/g, "'\"'\"'")
RECURSIVE ReplaceQuotes(_)
ReplaceQuotes(arg) ==
  IF arg = <<>> THEN <<>>
  ELSE (IF Head(arg) = SQ THEN <<SQ, DQ, SQ, DQ, SQ>> ELSE <<Head(arg)>>)
       \o ReplaceQuotes(Tail(arg))

\* a plausible slip: the argument is wrapped, its quotes left as they are
escapeShellArgNoReplace(arg) == <<SQ>> \o arg \o <<SQ>>

escapeShellArg(arg) == <<SQ>> \o ReplaceQuotes(arg) \o <<SQ>>

\* ---------------------------------------------------------------- exec
\* index of the first sep in s at or after i, 0 when there is none
RECURSIVE IndexFrom(_, _, _)
IndexFrom(s, sep, i) ==
  IF i > Len(s) THEN 0
  ELSE IF s[i] = sep THEN i ELSE IndexFrom(s, sep, i + 1)

\* String.prototype.split(sep) for a one-character separator
RECURSIVE Split(_, _)
Split(s, sep) ==
  LET idx == IndexFrom(s, sep, 1)
  IN IF idx = 0 THEN <<s>>
     ELSE <<SubSeq(s, 1, idx - 1)>> \o Split(SubSeq(s, idx + 1, Len(s)), sep)

\* Array.prototype.join(sep)
RECURSIVE Join(_, _)
Join(parts, sep) ==
  IF parts = <<>> THEN <<>>
  ELSE IF Len(parts) = 1 THEN parts[1]
  ELSE parts[1] \o <<sep>> \o Join(Tail(parts), sep)

NonEmpty(arg) == Len(arg) > 0

\* The line spawn(program, args, {shell: true}) runs under sh -c: the
\* program and the arguments joined by single spaces.
ShellCommand(command) ==
  LET parts == Split(command, SP)
      program == parts[1]
      args == SelectSeq(Tail(parts), NonEmpty)
  IN Join(<<program>> \o args, SP)

\* ------------------------------------------------------ the POSIX shell
\* unquoted characters the shell acts on instead of passing them on:
\* control operators, redirections, substitutions, pathname expansion
ShellSpecial == {";", "|", "&", "<", ">", "(", ")", "$", BQ, NL, "*", "?", "["}

LexInit ==
  [i |-> 1, mode |-> "plain", words |-> <<>>, cur |-> <<>>, inWord |-> FALSE,
   special |-> FALSE]

\* ch joins the current word; n characters of the line are consumed
LexAdd(st, ch, n) ==
  [st EXCEPT !.cur = @ \o <<ch>>, !.inWord = TRUE, !.i = @ + n]

LexSkip(st, n) == [st EXCEPT !.i = @ + n]

LexEndWord(st) ==
  IF st.inWord
  THEN [st EXCEPT !.words = @ \o <<st.cur>>, !.cur = <<>>, !.inWord = FALSE]
  ELSE st

\* Token recognition of the shell command language (POSIX 2.2, 2.3) at the
\* character st.i of the line s: quote removal with single quotes, double
\* quotes and backslash; blanks end a word.
LexStep(s, st) ==
  LET i == st.i
      ch == s[i]
      more == i < Len(s)
  IN
    IF st.mode = "single" THEN
      IF ch = SQ THEN LexSkip([st EXCEPT !.mode = "plain"], 1)
      ELSE LexAdd(st, ch, 1)
    ELSE IF st.mode = "double" THEN
      IF ch = DQ THEN LexSkip([st EXCEPT !.mode = "plain"], 1)
      ELSE IF ch = BSL /\ more /\ s[i + 1] \in {"$", BQ, DQ, BSL}
        THEN LexAdd(st, s[i + 1], 2)
      ELSE IF ch = BSL /\ more /\ s[i + 1] = NL THEN LexSkip(st, 2)
      ELSE IF ch \in {"$", BQ}
        THEN [LexAdd(st, ch, 1) EXCEPT !.special = TRUE]
      ELSE LexAdd(st, ch, 1)
    ELSE
      IF ch = SQ
        THEN LexSkip([st EXCEPT !.mode = "single", !.inWord = TRUE], 1)
      ELSE IF ch = DQ
        THEN LexSkip([st EXCEPT !.mode = "double", !.inWord = TRUE], 1)
      ELSE IF ch = BSL /\ more /\ s[i + 1] = NL THEN LexSkip(st, 2)
      ELSE IF ch = BSL /\ more THEN LexAdd(st, s[i + 1], 2)
      ELSE IF ch = SP THEN LexSkip(LexEndWord(st), 1)
      ELSE IF ch \in ShellSpecial
        THEN LexSkip([LexEndWord(st) EXCEPT !.special = TRUE], 1)
      ELSE LexAdd(st, ch, 1)

RECURSIVE Lex(_, _)
Lex(s, st) == IF st.i > Len(s) THEN st ELSE Lex(s, LexStep(s, st))

\* what sh makes of a command line: the words after quote removal, whether
\* an unquoted special character was met, whether a quote was left open
ShellParse(line) ==
  LET st == Lex(line, LexInit)
  IN [words |-> LexEndWord(st).words,
      special |-> st.special,
      open |-> st.mode # "plain"]

\* ---------------------------------------------------- JavaScript values
Undefined == [t |-> "undefined"]
Null == [t |-> "null"]
Str(s) == [t |-> "string", s |-> s]
Bool(b) == [t |-> "boolean", b |-> b]
Num(n) == [t |-> "number", n |-> n]

\* ToBoolean: what if (v), !v and v || w test
Truthy(v) ==
  CASE v.t = "string" -> v.s # <<>>
    [] v.t = "boolean" -> v.b
    [] v.t = "number" -> v.n # 0
    [] OTHER -> FALSE

DigitChar(d) ==
  CASE d = 0 -> "0" [] d = 1 -> "1" [] d = 2 -> "2" [] d = 3 -> "3"
    [] d = 4 -> "4" [] d = 5 -> "5" [] d = 6 -> "6" [] d = 7 -> "7"
    [] d = 8 -> "8" [] d = 9 -> "9"

RECURSIVE NatToString(_)
NatToString(n) ==
  IF n < 10 THEN <<DigitChar(n)>>
  ELSE NatToString(n \div 10) \o <<DigitChar(n % 10)>>

\* String(v), and v interpolated in a template literal
String(v) ==
  CASE v.t = "string" -> v.s
    [] v.t = "boolean" ->
         IF v.b THEN <<"t","r","u","e">> ELSE <<"f","a","l","s","e">>
    [] v.t = "number" ->
         IF v.n < 0 THEN <<"-">> \o NatToString(-v.n) ELSE NatToString(v.n)
    [] v.t = "null" -> <<"n","u","l","l">>
    [] OTHER -> <<"u","n","d","e","f","i","n","e","d">>

\* typeof v === 'boolean' ? v : undefined
BooleanOrUndefined(v) == IF v.t = "boolean" THEN v ELSE Undefined

\* typeof v === 'number' ? v : undefined
NumberOrUndefined(v) == IF v.t = "number" THEN v ELSE Undefined

\* v ? String(v) : undefined
StringOrUndefined(v) == IF Truthy(v) THEN Str(String(v)) ELSE Undefined

\* ------------------------------------------------------------ the tools
KnownTools ==
  {"search", "advanced-search", "count-matches", "list-files", "list-file-types"}

PatternTools == {"search", "advanced-search", "count-matches"}

\* request.params.arguments || {}: a parameter that is not given is undefined
NoArgs ==
  [pattern |-> Undefined, path |-> Undefined, caseSensitive |-> Undefined,
   fixedStrings |-> Undefined, filePattern |-> Undefined, fileType |-> Undefined,
   maxResults |-> Undefined, context |-> Undefined, invertMatch |-> Undefined,
   wordMatch |-> Undefined, includeHidden |-> Undefined,
   followSymlinks |-> Undefined, showFilenamesOnly |-> Undefined,
   showLineNumbers |-> Undefined, useColors |-> Undefined,
   countLines |-> Undefined]

\* String(args.pattern || "")
PatternOf(args) ==
  String(IF Truthy(args.pattern) THEN args.pattern ELSE Str(<<>>))

\* String(args.path)
PathOf(args) == String(args.path)

\* typeof args.useColors === 'boolean' ? args.useColors : false
UseColorsOf(args) ==
  IF args.useColors.t = "boolean" THEN args.useColors.b ELSE FALSE

\* typeof args.countLines === 'boolean' ? args.countLines : true
CountLinesOf(args) ==
  IF args.countLines.t = "boolean" THEN args.countLines.b ELSE TRUE

\* a plausible slip: the check of the pattern is left out
MissingPatternNever(pattern) == FALSE

\* if (!pattern)
MissingPattern(pattern) == pattern = <<>>

\* --------------------------------------------------- the command builder
CaseFlag(args) ==
  LET caseSensitive == BooleanOrUndefined(args.caseSensitive)
  IN IF caseSensitive = Bool(TRUE) THEN <<" ","-","s">>
     ELSE IF caseSensitive = Bool(FALSE) THEN <<" ","-","i">>
     ELSE <<>>

GlobFlag(args) ==
  LET filePattern == StringOrUndefined(args.filePattern)
  IN IF Truthy(filePattern)
     THEN <<" ","-","g"," ">> \o escapeShellArg(filePattern.s)
     ELSE <<>>

\* command += ` -t ${fileType}`: the value is appended as it is
TypeFlag(args) ==
  LET fileType == StringOrUndefined(args.fileType)
  IN IF Truthy(fileType) THEN <<" ","-","t"," ">> \o fileType.s ELSE <<>>

\* if (v !== undefined && v > 0) command += ` <flag> ${v}`
NumberFlag(v, flag) ==
  LET n == NumberOrUndefined(v)
  IN IF n # Undefined /\ n.n > 0 THEN flag \o String(n) ELSE <<>>

\* if (v === true) command += flag
TrueFlag(v, flag) == IF BooleanOrUndefined(v) = Bool(TRUE) THEN flag ELSE <<>>

LineNumberFlag(args) ==
  LET showLineNumbers == BooleanOrUndefined(args.showLineNumbers)
  IN IF showLineNumbers = Bool(TRUE) THEN <<" ","-","n">>
     ELSE IF showLineNumbers = Bool(FALSE) THEN <<" ","-","N">>
     ELSE <<" ","-","n">>

ColorFlag(args) ==
  IF UseColorsOf(args)
  THEN <<" ","-","-","c","o","l","o","r"," ","a","l","w","a","y","s">>
  ELSE <<" ","-","-","c","o","l","o","r"," ","n","e","v","e","r">>

\* ` ${escapeShellArg(pattern)} ${escapeShellArg(path)}`
PatternAndPath(args) ==
  <<SP>> \o escapeShellArg(PatternOf(args))
  \o <<SP>> \o escapeShellArg(PathOf(args))

searchCommand(args) ==
  <<"r","g">> \o CaseFlag(args) \o GlobFlag(args)
  \o NumberFlag(args.maxResults, <<" ","-","m"," ">>)
  \o NumberFlag(args.context, <<" ","-","C"," ">>)
  \o <<" ","-","n">> \o ColorFlag(args) \o PatternAndPath(args)

advancedSearchCommand(args) ==
  <<"r","g">> \o CaseFlag(args)
  \o TrueFlag(args.fixedStrings, <<" ","-","F">>)
  \o GlobFlag(args) \o TypeFlag(args)
  \o NumberFlag(args.maxResults, <<" ","-","m"," ">>)
  \o NumberFlag(args.context, <<" ","-","C"," ">>)
  \o TrueFlag(args.invertMatch, <<" ","-","v">>)
  \o TrueFlag(args.wordMatch, <<" ","-","w">>)
  \o TrueFlag(args.includeHidden, <<" ","-",".">>)
  \o TrueFlag(args.followSymlinks, <<" ","-","L">>)
  \o TrueFlag(args.showFilenamesOnly, <<" ","-","l">>)
  \o LineNumberFlag(args) \o ColorFlag(args) \o PatternAndPath(args)

countMatchesCommand(args) ==
  <<"r","g">> \o CaseFlag(args) \o GlobFlag(args)
  \o (IF CountLinesOf(args) THEN <<" ","-","c">>
      ELSE <<" ","-","-","c","o","u","n","t","-","m","a","t","c","h","e","s">>)
  \o ColorFlag(args) \o PatternAndPath(args)

listFilesCommand(args) ==
  <<"r","g"," ","-","-","f","i","l","e","s">>
  \o GlobFlag(args) \o TypeFlag(args)
  \o TrueFlag(args.includeHidden, <<" ","-",".">>)
  \o <<" ","-","-","c","o","l","o","r"," ","n","e","v","e","r">>
  \o <<SP>> \o escapeShellArg(PathOf(args))

listFileTypesCommand ==
  <<"r","g"," ","-","-","t","y","p","e","-","l","i","s","t"," ",
    "-","-","c","o","l","o","r"," ","n","e","v","e","r">>

\* the command of the switch case of toolName
BuildCommand(toolName, args) ==
  CASE toolName = "search" -> searchCommand(args)
    [] toolName = "advanced-search" -> advancedSearchCommand(args)
    [] toolName = "count-matches" -> countMatchesCommand(args)
    [] toolName = "list-files" -> listFilesCommand(args)
    [] toolName = "list-file-types" -> listFileTypesCommand

\* ------------------------------------------------------------ responses
NoResponse == [kind |-> "none", isError |-> FALSE, text |-> <<>>]

\* Object.create(null), returned for a tool name that is not one of the five
EmptyObject == [kind |-> "empty", isError |-> FALSE, text |-> <<>>]

\* { content: [{ type: "text", text }] }
Content(text) == [kind |-> "result", isError |-> FALSE, text |-> text]

\* { isError: true, content: [{ type: "text", text }] }
ErrorContent(text) == [kind |-> "result", isError |-> TRUE, text |-> text]

PatternRequired ==
  ErrorContent(<<"E","r","r","o","r",":"," ","P","a","t","t","e","r","n"," ",
                 "i","s"," ","r","e","q","u","i","r","e","d">>)

\* the right operand of || in the text of each normal response
Placeholder(toolName) ==
  CASE toolName \in PatternTools ->
         <<"N","o"," ","m","a","t","c","h","e","s"," ","f","o","u","n","d">>
    [] toolName = "list-files" ->
         <<"N","o"," ","f","i","l","e","s"," ","f","o","u","n","d">>
    [] toolName = "list-file-types" ->
         <<"F","a","i","l","e","d"," ","t","o"," ","g","e","t"," ",
           "f","i","l","e"," ","t","y","p","e","s">>

\* the response after await exec(command) resolved with stdout
ResolvedResponse(toolName, args, stdout) ==
  LET text == IF toolName \in PatternTools
              THEN processOutput(stdout, UseColorsOf(args))
              ELSE stripAnsiEscapeCodes(stdout)
  IN Content(IF text # <<>> THEN text ELSE Placeholder(toolName))

\* ------------------------------------------------------- error objects
\* new Error(`Command failed with exit code ${code}`) with code, stdout and
\* stderr assigned to it
ExitError(code, stdout, stderr) ==
  [message |-> <<"C","o","m","m","a","n","d"," ","f","a","i","l","e","d"," ",
                 "w","i","t","h"," ","e","x","i","t"," ","c","o","d","e"," ">>
               \o String(code),
   code |-> code, stdout |-> Str(stdout), stderr |-> Str(stderr)]

\* the error of the child's 'error' event: the shell could not be started
SpawnError ==
  [message |-> <<"s","p","a","w","n"," ","/","b","i","n","/","s","h"," ",
                 "E","N","O","E","N","T">>,
   code |-> Str(<<"E","N","O","E","N","T">>),
   stdout |-> Undefined, stderr |-> Undefined]

\* the error spawn throws synchronously inside the promise executor
SpawnThrown ==
  [message |-> <<"s","p","a","w","n"," ","E","P","E","R","M">>,
   code |-> Str(<<"E","P","E","R","M">>),
   stdout |-> Undefined, stderr |-> Undefined]

NoError ==
  [message |-> <<>>, code |-> Undefined, stdout |-> Undefined,
   stderr |-> Undefined]

\* a plausible slip: the captured stderr is left out of the error text
ErrorTextNoStderr(error) ==
  stripAnsiEscapeCodes(<<"E","r","r","o","r",":"," ">> \o error.message \o <<NL>>)

\* stripAnsiEscapeCodes(`Error: ${error.message}\n${error.stderr || ""}`)
ErrorText(error) ==
  stripAnsiEscapeCodes(
    <<"E","r","r","o","r",":"," ">> \o error.message \o <<NL>>
    \o (IF Truthy(error.stderr) THEN String(error.stderr) ELSE <<>>))

\* the catch block of the handler
CatchResponse(error) ==
  IF error.code = Num(1) /\ ~Truthy(error.stderr)
  THEN Content(<<"N","o"," ","m","a","t","c","h","e","s"," ",
                 "f","o","u","n","d",".">>)
  ELSE ErrorContent(ErrorText(error))

\* ------------------------------------------------------------- promises
NoPromise ==
  [state |-> "none", stdout |-> <<>>, stderr |-> <<>>, error |-> NoError,
   settles |-> 0]

Pending == [NoPromise EXCEPT !.state = "pending"]

\* resolve and reject settle a pending promise and do nothing to a settled one
Resolve(p, stdout, stderr) ==
  IF p.state = "pending"
  THEN [p EXCEPT !.state = "resolved", !.stdout = stdout, !.stderr = stderr,
                 !.settles = @ + 1]
  ELSE p

\* a plausible slip: a later reject replaces what the promise was settled with
RejectOverwrite(p, error) ==
  [p EXCEPT !.state = "rejected", !.error = error, !.settles = @ + 1]

Reject(p, error) ==
  IF p.state = "pending"
  THEN [p EXCEPT !.state = "rejected", !.error = error, !.settles = @ + 1]
  ELSE p

\* a plausible slip: only exit code 0 resolves
ExitOkOnlyZero(code) == code = Num(0)

\* code === 0 || code === 1
ExitOk(code) == code = Num(0) \/ code = Num(1)

\* the errno the close event carries when the shell could not be started
SpawnFailedCode == Num(-2)

\* ---------------------------------------------------------------- state
VARIABLES
  req,       \* req[c]: the CallTool request of call c, its name and arguments
  world,     \* world[c]: what the child of call c does once it is spawned
  pc,        \* pc[c]: "unused", "received", "awaiting" (at await exec), "returned"
  command,   \* command[c]: the command string the handler built
  child,     \* child[c]: the child process of call c and the events it emitted
  buf,       \* buf[c]: the stdout and stderr variables of exec
  promise,   \* promise[c]: the promise exec returned
  response,  \* response[c]: what the handler returned
  q          \* the quoting function applied to one string, and sh reading it

vars == <<req, world, pc, command, child, buf, promise, response, q>>

Calls == 1..NumCalls

NoChild ==
  [spawns |-> 0, line |-> <<>>, outSeen |-> 0, errSeen |-> 0,
   errorEmitted |-> FALSE, closed |-> FALSE]

NoBuf == [stdout |-> <<>>, stderr |-> <<>>]

QOff == [pc |-> "off", s |-> <<>>, token |-> <<>>, parsed |-> ShellParse(<<>>)]

\* the chunks of a stream, concatenated
RECURSIVE Flatten(_)
Flatten(chunks) ==
  IF chunks = <<>> THEN <<>> ELSE Head(chunks) \o Flatten(Tail(chunks))

\* ------------------------------------------------------ the data handlers
\* a plausible slip: stdout is one variable shared by all calls of exec
OnStdoutDataShared(b, c, data) ==
  [d \in DOMAIN b |-> [b[d] EXCEPT !.stdout = @ \o data]]

\* child.stdout.on("data", (data) => { stdout += data; })
OnStdoutData(b, c, data) == [b EXCEPT ![c].stdout = @ \o data]

\* child.stderr.on("data", (data) => { stderr += data; })
OnStderrData(b, c, data) == [b EXCEPT ![c].stderr = @ \o data]

\* -------------------------------------------------------------- actions
\* The handler from its entry to its first return or to await exec(command):
\* the tool-name check, the coercion of the arguments, the pattern check, the
\* command, and exec up to the spawn.
CallTool(c) ==
  /\ pc[c] = "received"
  /\ LET toolName == req[c].name
         args == req[c].args
     IN IF toolName \notin KnownTools
        THEN /\ response' = [response EXCEPT ![c] = EmptyObject]
             /\ pc' = [pc EXCEPT ![c] = "returned"]
             /\ UNCHANGED <<command, child, promise>>
        ELSE IF toolName \in PatternTools /\ MissingPattern(PatternOf(args))
        THEN /\ response' = [response EXCEPT ![c] = PatternRequired]
             /\ pc' = [pc EXCEPT ![c] = "returned"]
             /\ UNCHANGED <<command, child, promise>>
        ELSE LET built == BuildCommand(toolName, args)
             IN /\ command' = [command EXCEPT ![c] = built]
                /\ child' = [child EXCEPT ![c].spawns = @ + 1,
                                          ![c].line = ShellCommand(built)]
                /\ promise' = [promise EXCEPT ![c] =
                                 IF world[c].launch = "throw"
                                 THEN Reject(Pending, SpawnThrown)
                                 ELSE Pending]
                /\ pc' = [pc EXCEPT ![c] = "awaiting"]
                /\ UNCHANGED response
  /\ UNCHANGED <<req, world, buf, q>>

\* a data event of the child's stdout
StdoutData(c) ==
  /\ child[c].spawns > 0 /\ world[c].launch = "ok" /\ ~child[c].closed
  /\ child[c].outSeen < Len(world[c].out)
  /\ buf' = OnStdoutData(buf, c, world[c].out[child[c].outSeen + 1])
  /\ child' = [child EXCEPT ![c].outSeen = @ + 1]
  /\ UNCHANGED <<req, world, pc, command, promise, response, q>>

\* a data event of the child's stderr
StderrData(c) ==
  /\ child[c].spawns > 0 /\ world[c].launch = "ok" /\ ~child[c].closed
  /\ child[c].errSeen < Len(world[c].err)
  /\ buf' = OnStderrData(buf, c, world[c].err[child[c].errSeen + 1])
  /\ child' = [child EXCEPT ![c].errSeen = @ + 1]
  /\ UNCHANGED <<req, world, pc, command, promise, response, q>>

\* the child's 'error' event: the shell could not be started
ChildError(c) ==
  /\ child[c].spawns > 0 /\ world[c].launch = "error"
  /\ ~child[c].errorEmitted
  /\ child' = [child EXCEPT ![c].errorEmitted = TRUE]
  /\ promise' = [promise EXCEPT ![c] = Reject(@, SpawnError)]
  /\ UNCHANGED <<req, world, pc, command, buf, response, q>>

\* a plausible slip: the handler listens to 'exit', which the child may emit
\* while its streams still hold data
StreamsEndedOrNot(c) == TRUE

\* child.on("close", ...): 'close' is emitted once the stdio streams of the
\* child have ended, that is after their last data event
StreamsEnded(c) ==
  /\ child[c].outSeen = Len(world[c].out)
  /\ child[c].errSeen = Len(world[c].err)

\* the child's 'close' event: after both streams ended, or after the 'error'
\* event of a shell that could not be started
ChildClose(c) ==
  /\ child[c].spawns > 0 /\ ~child[c].closed
  /\ \/ /\ world[c].launch = "ok"
        /\ StreamsEnded(c)
     \/ /\ world[c].launch = "error"
        /\ child[c].errorEmitted
  /\ LET code == IF world[c].launch = "ok" THEN world[c].code
                 ELSE SpawnFailedCode
     IN promise' = [promise EXCEPT ![c] =
                      IF ExitOk(code)
                      THEN Resolve(@, buf[c].stdout, buf[c].stderr)
                      ELSE Reject(@, ExitError(code, buf[c].stdout, buf[c].stderr))]
  /\ child' = [child EXCEPT ![c].closed = TRUE]
  /\ UNCHANGED <<req, world, pc, command, buf, response, q>>

\* The handler from await exec(command) to its return: the normal response
\* of the tool when the promise resolved, the catch block when it rejected.
Return(c) ==
  /\ pc[c] = "awaiting"
  /\ promise[c].state \in {"resolved", "rejected"}
  /\ response' = [response EXCEPT ![c] =
                    IF promise[c].state = "resolved"
                    THEN ResolvedResponse(req[c].name, req[c].args,
                                          promise[c].stdout)
                    ELSE CatchResponse(promise[c].error)]
  /\ pc' = [pc EXCEPT ![c] = "returned"]
  /\ UNCHANGED <<req, world, command, child, buf, promise, q>>

Next ==
  \E c \in Calls :
    \/ CallTool(c)
    \/ StdoutData(c)
    \/ StderrData(c)
    \/ ChildError(c)
    \/ ChildClose(c)
    \/ Return(c)

\* ------------------------------------------------- requests and children
Request(name, args) == [name |-> name, args |-> args]

World(launch, out, err, code) ==
  [launch |-> launch, out |-> out, err |-> err, code |-> code]

\* a child that prints one line and exits with 0
QuietWorld == World("ok", <<<<"a">>>>, <<>>, Num(0))

\* a search that needs nothing but its required parameters
PlainArgs == [NoArgs EXCEPT !.pattern = Str(<<"a">>), !.path = Str(<<"p">>)]

Tri == {Undefined, Bool(TRUE), Bool(FALSE)}

PatternValues ==
  {Undefined, Str(<<>>), Num(0), Str(<<"a">>), Str(<<"a", SP, SP, "b">>),
   Str(<<"a", SQ, "b">>), Str(<<"$", "(", "x", ")", ";">>)}

PathValues ==
  {Undefined, Str(<<>>), Str(<<"p">>), Str(<<"p", SP, SQ, "q">>)}

GlobValues ==
  {Undefined, Str(<<"*", ".", "t", "s">>), Str(<<SQ, "|", "x">>)}

TypeValues ==
  {Undefined, Str(<<"j", "s">>), Str(<<"j", "s", ";", "i", "d">>),
   Str(<<"j", "s", SP, "-", "N">>), Str(<<"j", "s", SP, "-", "n">>)}

LineValues == {Undefined, Bool(TRUE), Bool(FALSE), Str(<<"n", "o">>)}

NumberValues == {Undefined, Num(0), Num(12), Str(<<"3">>)}

\* the string parameters of every tool
StringRequests ==
  {Request(n, [NoArgs EXCEPT !.pattern = p, !.path = d, !.filePattern = g]) :
     n \in KnownTools, p \in PatternValues, d \in PathValues, g \in GlobValues}

\* the file type and the line-number switch
TypeRequests ==
  {Request(n, [PlainArgs EXCEPT !.fileType = t, !.showLineNumbers = l]) :
     n \in KnownTools, t \in TypeValues, l \in LineValues}

\* the switches and the numbers
FlagRequests ==
  {Request(n, [PlainArgs EXCEPT
                 !.caseSensitive = cs, !.fixedStrings = b, !.invertMatch = b,
                 !.wordMatch = b, !.includeHidden = b, !.followSymlinks = b,
                 !.showFilenamesOnly = b, !.countLines = b,
                 !.maxResults = m, !.context = m, !.useColors = u]) :
     n \in KnownTools, cs \in Tri, b \in Tri, m \in NumberValues, u \in Tri}

UnknownRequest == Request("other-tool", PlainArgs)

BuildRequests ==
  StringRequests \cup TypeRequests \cup FlagRequests \cup {UnknownRequest}

BuildWorlds ==
  {QuietWorld,
   World("ok", <<>>, <<<<"e">>>>, Num(2)),
   World("error", <<>>, <<>>, Null),
   World("throw", <<>>, <<>>, Null)}

\* every tool, with and without colors
ExecRequests ==
  {Request(n, [PlainArgs EXCEPT !.useColors = u]) : n \in KnownTools, u \in Tri}
  \cup {UnknownRequest, Request("search", NoArgs)}

ExitCodes == {Num(0), Num(1), Num(2), Null}

OutChunks == {<<"a">>, <<ESC, "[", "0", "m">>}

ErrChunks == {<<"z">>, <<ESC, "[", "1", "m">>}

RawAlphabet == {ESC, "[", "m"}

\* children that differ in their streams and in their exit code
ExitWorlds ==
  {World("ok", out, err, code) :
     out \in StringsUpTo(OutChunks, MaxChunks),
     err \in StringsUpTo(ErrChunks, MaxChunks),
     code \in ExitCodes}

\* children that print one raw output and exit with 0
RawWorlds ==
  {World("ok", <<raw>>, <<>>, Num(0)) :
     raw \in StringsUpTo(RawAlphabet, MaxRaw) \ {<<>>}}

ExecWorlds ==
  ExitWorlds \cup RawWorlds
  \cup {World("error", <<>>, <<>>, Null), World("throw", <<>>, <<>>, Null)}

ConcRequests ==
  {Request("search", PlainArgs), Request("list-files", PlainArgs),
   Request("count-matches", NoArgs), UnknownRequest}

ConcWorlds ==
  {QuietWorld,
   World("ok", <<<<"b">>>>, <<<<"e">>>>, Num(2)),
   World("error", <<>>, <<>>, Null),
   World("throw", <<>>, <<>>, Null)}

\* ------------------------------------------------------- specifications
\* the calls in active are received, the others are never made
InitCalls(active, requests, worlds) ==
  /\ \E r \in [active -> requests], w \in [active -> worlds] :
       /\ req = [c \in Calls |->
                   IF c \in active THEN r[c] ELSE Request("search", PlainArgs)]
       /\ world = [c \in Calls |-> IF c \in active THEN w[c] ELSE QuietWorld]
  /\ pc = [c \in Calls |-> IF c \in active THEN "received" ELSE "unused"]
  /\ command = [c \in Calls |-> <<>>]
  /\ child = [c \in Calls |-> NoChild]
  /\ buf = [c \in Calls |-> NoBuf]
  /\ promise = [c \in Calls |-> NoPromise]
  /\ response = [c \in Calls |-> NoResponse]
  /\ q = QOff

\* one call, every shape of request
Init == InitCalls({1}, BuildRequests, BuildWorlds)

Spec == Init /\ [][Next]_vars

\* one call, every shape of child
InitExec == InitCalls({1}, ExecRequests, ExecWorlds)

SpecExec == InitExec /\ [][Next]_vars

\* concurrent calls
InitConc == InitCalls(Calls, ConcRequests, ConcWorlds)

SpecConc == InitConc /\ [][Next]_vars

\* one call, a child of every kind of ending; the continuation of await runs
\* once the promise is settled (a microtask of the event loop)
LiveWorlds ==
  BuildWorlds
  \cup {World("ok", <<<<"a">>>>, <<<<"z">>>>, Num(1)),
        World("ok", <<<<"a">>, <<"b">>>>, <<>>, Null)}

InitLive == InitCalls({1}, ExecRequests, LiveWorlds)

SpecLive ==
  InitLive /\ [][Next]_vars /\ \A c \in Calls : WF_vars(Return(c))

\* ------------------------------------------- the quoting function alone
QuoteAlphabet ==
  {"a", SP, SQ, DQ, BSL, ";", "|", "$", "(", ")", BQ, NL}

InitQuote ==
  /\ q \in {[QOff EXCEPT !.pc = "given", !.s = s] :
              s \in StringsUpTo(QuoteAlphabet, MaxLen)}
  /\ req = [c \in Calls |-> Request("search", PlainArgs)]
  /\ world = [c \in Calls |-> QuietWorld]
  /\ pc = [c \in Calls |-> "unused"]
  /\ command = [c \in Calls |-> <<>>]
  /\ child = [c \in Calls |-> NoChild]
  /\ buf = [c \in Calls |-> NoBuf]
  /\ promise = [c \in Calls |-> NoPromise]
  /\ response = [c \in Calls |-> NoResponse]

\* escapeShellArg(s)
Quote ==
  /\ q.pc = "given"
  /\ q' = [q EXCEPT !.pc = "quoted", !.token = escapeShellArg(q.s)]
  /\ UNCHANGED <<req, world, pc, command, child, buf, promise, response>>

\* sh reads the token
ShellRead ==
  /\ q.pc = "quoted"
  /\ q' = [q EXCEPT !.pc = "read", !.parsed = ShellParse(q.token)]
  /\ UNCHANGED <<req, world, pc, command, child, buf, promise, response>>

NextQuote == Quote \/ ShellRead

SpecQuote == InitQuote /\ [][NextQuote]_vars

\* =============================================================== claims
Returned(c) == pc[c] = "returned"

Spawned(c) == child[c].spawns > 0

\* the tokens of a command string, as exec splits it
Tokens(cmd) == Split(cmd, SP)

Count(tokens, t) == Cardinality({i \in 1..Len(tokens) : tokens[i] = t})

\* a substring of s matches the escape-sequence pattern
HasEscape(s) == \E i \in 1..Len(s) : MatchLen(s, i) > 0

\* t occurs in s as a contiguous substring
Includes(s, t) ==
  \E i \in 0..(Len(s) - Len(t)) : SubSeq(s, i + 1, i + Len(t)) = t

\* C1: in every command line handed to the shell, every parameter value is
\* inside quotes: sh meets no unquoted special character (no ; | & < > ( )
\* $ or backquote, no newline, no pattern character) and no quote left open.
C1_OnlyQuotedValues ==
  \A c \in Calls :
    Spawned(c) =>
      LET parsed == ShellParse(child[c].line)
      IN ~parsed.special /\ ~parsed.open

\* C2: sh reads escapeShellArg(s) as exactly one word, and the word is s,
\* whatever quotes, blanks, operators and newlines s holds.
C2_RoundTrip ==
  q.pc = "read" =>
    /\ q.parsed.words = <<q.s>>
    /\ ~q.parsed.special
    /\ ~q.parsed.open

\* a string with a single quote and an operator was quoted and read back
C2_Witness ==
  /\ q.pc = "read"
  /\ \E i, j \in 1..Len(q.s) : q.s[i] = SQ /\ q.s[j] = ";"
  /\ q.parsed.words = <<q.s>>

PatternAbsent(c) ==
  req[c].args.pattern = Undefined \/ req[c].args.pattern = Str(<<>>)

\* C3: a call of search, advanced-search or count-matches whose pattern is
\* missing or the empty string never spawns a child, and it returns the error
\* response with the text "Error: Pattern is required".
C3_PatternRequired ==
  \A c \in Calls :
    (pc[c] # "unused" /\ req[c].name \in PatternTools /\ PatternAbsent(c)) =>
      /\ child[c].spawns = 0
      /\ command[c] = <<>>
      /\ pc[c] # "awaiting"
      /\ Returned(c) =>
           /\ response[c].kind = "result"
           /\ response[c].isError
           /\ response[c].text =
                <<"E","r","r","o","r",":"," ","P","a","t","t","e","r","n"," ",
                  "i","s"," ","r","e","q","u","i","r","e","d">>

\* count-matches was called with the empty string as pattern and has returned
C3_Witness ==
  \E c \in Calls :
    /\ Returned(c)
    /\ req[c].name = "count-matches"
    /\ req[c].args.pattern = Str(<<>>)
    /\ response[c].isError
    /\ child[c].spawns = 0

PathAbsent(c) ==
  req[c].args.path = Undefined \/ req[c].args.path = Str(<<>>)

\* C4: a call of search, advanced-search, count-matches or list-files whose
\* path is missing or empty never spawns a child, and it returns an error
\* response.
C4_PathRequired ==
  \A c \in Calls :
    (pc[c] # "unused" /\ req[c].name \in PatternTools \cup {"list-files"}
       /\ PathAbsent(c)) =>
      /\ child[c].spawns = 0
      /\ Returned(c) => response[c].kind = "result" /\ response[c].isError

\* the child of call c ran and closed with exit code 1, having written
\* nothing to stdout or stderr, and the call has returned
NoMatchCase(c) ==
  /\ Returned(c) /\ req[c].name \in KnownTools /\ Spawned(c)
  /\ world[c].launch = "ok" /\ world[c].code = Num(1)
  /\ buf[c].stdout = <<>> /\ buf[c].stderr = <<>>

FailureCase(c) ==
  /\ Returned(c) /\ req[c].name \in KnownTools /\ Spawned(c)
  /\ \/ world[c].launch # "ok"
     \/ child[c].closed /\ world[c].code \notin {Num(0), Num(1)}

\* C6 as stated: after a failed launch or an exit code other than 0 and 1
\* the call returns an error response whose text includes the stderr the
\* child wrote.
C6_ErrorIncludesStderr ==
  \A c \in Calls :
    FailureCase(c) =>
      /\ response[c].kind = "result" /\ response[c].isError
      /\ Includes(response[c].text, buf[c].stderr)

\* C6 as amended: after a failed launch or an exit code other than 0 and 1
\* the call returns an error response whose text includes the stderr the
\* child wrote with its color escape sequences stripped.
C6_ErrorIncludesStrippedStderr ==
  \A c \in Calls :
    FailureCase(c) =>
      /\ response[c].kind = "result" /\ response[c].isError
      /\ Includes(response[c].text, stripAnsiEscapeCodes(buf[c].stderr))

\* a call returned after its child was killed by a signal (exit code null),
\* and the child had written two chunks to stderr
C6_Witness ==
  \E c \in Calls :
    /\ FailureCase(c) /\ world[c].launch = "ok" /\ world[c].code = Null
    /\ child[c].errSeen = 2 /\ buf[c].stderr # <<>>
    /\ response[c].isError

\* C7: a normal response to a non-empty stdout holds no color escape
\* sequence, except that search, advanced-search and count-matches with
\* useColors true return the stdout unchanged.
C7_Normalised ==
  \A c \in Calls :
    (Returned(c) /\ req[c].name \in KnownTools
       /\ promise[c].state = "resolved" /\ promise[c].stdout # <<>>) =>
      IF req[c].name \in PatternTools /\ req[c].args.useColors = Bool(TRUE)
      THEN response[c].text = promise[c].stdout
      ELSE ~HasEscape(response[c].text)

\* C8: the command of advanced-search holds one of the two line-number flags
\* and never both: -N and no -n when showLineNumbers is false, -n and no -N
\* when it is true, absent or not a boolean.
C8_LineNumberFlag ==
  \A c \in Calls :
    (req[c].name = "advanced-search" /\ command[c] # <<>>) =>
      LET on == Count(Tokens(command[c]), <<"-","n">>) > 0
          off == Count(Tokens(command[c]), <<"-","N">>) > 0
      IN IF req[c].args.showLineNumbers = Bool(FALSE)
         THEN off /\ ~on
         ELSE on /\ ~off

\* what call c returns when it runs alone: a function of its own request and
\* of what its own child writes and how it ends
OwnResponse(c) ==
  LET toolName == req[c].name
      args == req[c].args
      out == Flatten(world[c].out)
      err == Flatten(world[c].err)
  IN IF toolName \notin KnownTools THEN EmptyObject
     ELSE IF toolName \in PatternTools /\ PatternOf(args) = <<>>
       THEN PatternRequired
     ELSE IF world[c].launch = "throw" THEN CatchResponse(SpawnThrown)
     ELSE IF world[c].launch = "error" THEN CatchResponse(SpawnError)
     ELSE IF world[c].code \in {Num(0), Num(1)}
       THEN ResolvedResponse(toolName, args, out)
     ELSE CatchResponse(ExitError(world[c].code, out, err))

\* C9: in every interleaving of the calls, each call spawns at most one
\* child and its promise is settled at most once; the buffers of its exec
\* hold only what its own child wrote; and its response is what the call
\* returns when it runs alone.
C9_Isolation ==
  \A c \in Calls :
    /\ child[c].spawns <= 1
    /\ promise[c].settles <= 1
    /\ buf[c].stdout = Flatten(SubSeq(world[c].out, 1, child[c].outSeen))
    /\ buf[c].stderr = Flatten(SubSeq(world[c].err, 1, child[c].errSeen))
    /\ Returned(c) => response[c] = OwnResponse(c)

\* one call has returned its child's output while the child of another call,
\* which wrote something else, is still running
C9_Witness ==
  \E c, d \in Calls :
    /\ c # d
    /\ Returned(c) /\ child[c].closed /\ buf[c].stdout # <<>>
    /\ pc[d] = "awaiting" /\ ~child[d].closed /\ buf[d].stdout # <<>>
    /\ buf[c].stdout # buf[d].stdout
    /\ response[c].text = buf[c].stdout

\* C10: the line the shell runs is the command the handler built, and sh
\* reads the pattern and the path of the request as its last two words.
C10_SameCommandLine ==
  \A c \in Calls :
    Spawned(c) =>
      /\ child[c].line = command[c]
      /\ req[c].name \in PatternTools =>
           LET words == ShellParse(child[c].line).words
           IN /\ Len(words) >= 2
              /\ words[Len(words) - 1] = PatternOf(req[c].args)
              /\ words[Len(words)] = PathOf(req[c].args)

Settled(c) == promise[c].state \in {"resolved", "rejected"}

\* what the child of call c writes to a stream in all: nothing when the
\* shell could not be started
Written(c, chunks) == IF world[c].launch = "ok" THEN Flatten(chunks) ELSE <<>>

\* C11: in every interleaving of the stdout data, stderr data, close and
\* error events of a child, the promise of exec is settled only after every
\* data event of both streams was handled, and what it is settled with
\* carries all that the child wrote: the resolved value holds the whole
\* stdout and stderr, and so does the error of a close with a failing code;
\* an error without streams (a failed launch) comes from a child that wrote
\* nothing.
C11_Drained ==
  \A c \in Calls :
    Settled(c) =>
      /\ world[c].launch = "ok" =>
           /\ child[c].outSeen = Len(world[c].out)
           /\ child[c].errSeen = Len(world[c].err)
      /\ buf[c].stdout = Written(c, world[c].out)
      /\ buf[c].stderr = Written(c, world[c].err)
      /\ promise[c].state = "resolved" =>
           /\ promise[c].stdout = Written(c, world[c].out)
           /\ promise[c].stderr = Written(c, world[c].err)
      /\ promise[c].state = "rejected" =>
           IF promise[c].error.stdout = Undefined
           THEN /\ world[c].launch # "ok"
                /\ buf[c].stdout = <<>> /\ buf[c].stderr = <<>>
           ELSE /\ promise[c].error.stdout = Str(Written(c, world[c].out))
                /\ promise[c].error.stderr = Str(Written(c, world[c].err))

\* a promise was rejected by a close with exit code 2 after two data events
\* on each stream, and its error carries both streams
C11_Witness ==
  \E c \in Calls :
    /\ promise[c].state = "rejected" /\ world[c].code = Num(2)
    /\ child[c].outSeen = 2 /\ child[c].errSeen = 2
    /\ promise[c].error.stdout = Str(buf[c].stdout)
    /\ promise[c].error.stderr = Str(buf[c].stderr)
    /\ buf[c].stdout # <<>> /\ buf[c].stderr # <<>>

\* what holds of a call of a known tool in every state: its promise is
\* settled at most once; after an 'error' event the promise stays rejected
\* with the error of that event, whether or not 'close' has followed; and a
\* call that returned has returned a response object, normal content or an
\* error flag, with a text that is not empty
OneResult(c) ==
  /\ promise[c].settles <= 1
  /\ child[c].errorEmitted =>
       promise[c].state = "rejected" /\ promise[c].error = SpawnError
  /\ (child[c].closed /\ world[c].launch = "ok") => Settled(c)
  /\ Returned(c) =>
       /\ response[c].kind = "result"
       /\ response[c].text # <<>>
       /\ child[c].errorEmitted => response[c] = CatchResponse(SpawnError)

\* C12: for every call of a known tool, the promise is settled once, by the
\* first of 'error' and 'close'; the response, once returned, is a response
\* object and is never replaced; and a call whose child has emitted 'close'
\* or 'error' does return.
C12_OneResponse ==
  /\ [](\A c \in Calls : req[c].name \in KnownTools => OneResult(c))
  /\ [][\A c \in Calls : Returned(c) =>
          pc'[c] = pc[c] /\ response'[c] = response[c]]_vars
  /\ \A c \in Calls :
       (req[c].name \in KnownTools
          /\ (child[c].closed \/ child[c].errorEmitted)) ~> Returned(c)

\* the shell could not be started: 'error' and then 'close' fired, the
\* promise was settled once, and the call returned the error response
C12_Witness ==
  \E c \in Calls :
    /\ req[c].name \in KnownTools
    /\ child[c].errorEmitted /\ child[c].closed
    /\ promise[c].settles = 1 /\ promise[c].error = SpawnError
    /\ Returned(c) /\ response[c].isError

====
